---- MODULE Spec2Model ----
(***************************************************************************)
(* The social-video backend of enterprise-lgrg: four session servers and   *)
(* the original server without sessions, as one state machine.            *)
(*   "p0"     src/unnamed/part_000  sessions + DynamoDB only               *)
(*   "p1ddb"  src/unnamed/part_001  sessions + DynamoDB (USE_DDB)          *)
(*   "p1file" src/unnamed/part_001  sessions + JSON files (fallback)       *)
(*   "p2"     src/unnamed/part_002  sessions + JSON files                  *)
(*   "tb"     src/tiktokbackend.js  no sessions, JSON file                 *)
(* A request handler runs without preemption up to an await on a storage  *)
(* round-trip or on bcrypt; one action is one such run.  A DynamoDB call   *)
(* takes effect atomically in the step that resumes its caller.            *)
(***************************************************************************)
EXTENDS Integers, Sequences, FiniteSets, TLC

VARIABLES
  variant,   \* which server is running
  users,     \* user store: table username -> item (DynamoDB), list (users.json)
  videos,    \* video store: id -> item (table VIDEOS_TABLE / feed.json)
  session,   \* per client: the signed cookie's req.session.user, <<>> when unset
  now,       \* Date.now()
  proc,      \* per request slot: the request in flight or its response
  nreq       \* number of requests started

vars == <<variant, users, videos, session, now, proc, nreq>>

\* ---------------------------------------------------------------- bounds
NumProcs == 2
MaxRequests == 4
MaxNow == 2

Procs == 1..NumProcs
Clients == {"c1", "c2"}

\* ------------------------------------------------------ program constants
MinUsernameLen == 3
MinPasswordLen == 6
MaxCommentLen == 300
NumSeedVideos == 3
NumSeedVideosOriginal == 5

\* --------------------------------------------------------------- variants
Variants == {"p0", "p1ddb", "p1file", "p2", "tb"}
Managed == {"p0", "p1ddb"}
FileBacked == {"p1file", "p2", "tb"}
SessionEnabled == {"p0", "p1ddb", "p1file", "p2"}

\* ------------------------------------------------------------ pure helpers
EmptyTable == [k \in {} |-> k]

\* item with attribute k set to val (added when absent)
SetAttr(item, k, val) ==
  [a \in DOMAIN item \cup {k} |-> IF a = k THEN val ELSE item[a]]

Has(item, k) == k \in DOMAIN item

Elems(s) == {s[i] : i \in 1..Len(s)}

Rep(ch, n) == [i \in 1..n |-> ch]

UpperCase == <<"A", "B", "C", "D", "E", "F", "G", "H", "I", "J", "K", "L", "M",
               "N", "O", "P", "Q", "R", "S", "T", "U", "V", "W", "X", "Y", "Z">>
LowerCase == <<"a", "b", "c", "d", "e", "f", "g", "h", "i", "j", "k", "l", "m",
               "n", "o", "p", "q", "r", "s", "t", "u", "v", "w", "x", "y", "z">>

LowerChar(c) ==
  IF \E i \in 1..Len(UpperCase) : UpperCase[i] = c
  THEN LowerCase[CHOOSE i \in 1..Len(UpperCase) : UpperCase[i] = c]
  ELSE c

\* String.prototype.toLowerCase on a string held as a sequence of characters
toLowerCase(s) == [i \in 1..Len(s) |-> LowerChar(s[i])]

IsSpace(c) == c \in {" ", "\t", "\n"}

RECURSIVE TrimStart(_)
TrimStart(s) ==
  IF s = <<>> THEN s
  ELSE IF IsSpace(Head(s)) THEN TrimStart(Tail(s)) ELSE s

RECURSIVE TrimEnd(_)
TrimEnd(s) ==
  IF s = <<>> THEN s
  ELSE IF IsSpace(s[Len(s)]) THEN TrimEnd(SubSeq(s, 1, Len(s) - 1)) ELSE s

\* String.prototype.trim
trim(s) == TrimEnd(TrimStart(s))

Digits == <<"0", "1", "2", "3", "4", "5", "6", "7", "8", "9">>

\* String(n) for a non-negative integer
RECURSIVE StringOf(_)
StringOf(n) ==
  IF n < 10 THEN Digits[n + 1]
  ELSE StringOf(n \div 10) \o Digits[(n % 10) + 1]

\* bcrypt.hash / bcrypt.compare
bcryptHash(pw) == [bcrypt |-> pw]
bcryptCompare(pw, hash) == hash.bcrypt = pw

IsPrefix(s, t) == Len(s) <= Len(t) /\ SubSeq(t, 1, Len(s)) = s

\* ------------------------------------------------------------- seed data
SeedHandles == <<"@alpine.explorer", "@nocturne", "@chefmode", "@surf.check", "@studylog">>
SeedSrc == <<"coverr-man-walking-on-a-suspension-bridge-6468", "coverr-city-street-at-night-6923",
             "coverr-making-pizza-8157", "coverr-surfing-on-the-ocean-9720",
             "coverr-writing-in-a-notebook-5691">>
SeedMusic == <<"Original Sound - alpine", "City Nights - analogtape", "Neapolitan Vibes - cucina",
               "Sea Breeze - modular", "Lo-fi Loop - studycat">>
SeedCaption == <<"Crossing the old suspension bridge. Would you? #hike #adventure",
                 "Blue hour drives hit different.", "POV: best pizza of your life",
                 "Morning glass. Lefts were firing.", "25m deep work, 5m rest. #pomodoro">>

SeedBase(k) ==
  [id |-> k, src |-> SeedSrc[k], username |-> SeedHandles[k], caption |-> SeedCaption[k],
   music |-> SeedMusic[k], likeCount |-> 0, comments |-> <<>>]

\* the seed item with id k as server v writes it
SeedItem(v, k) ==
  IF v \in Managed THEN SetAttr(SeedBase(k), "likes", <<>>)
  ELSE IF v = "tb" THEN SeedBase(k)
  ELSE SetAttr(SeedBase(k), "likesByUser", {})

\* ensureSeed / ensureLocalSeed at process start: the data files of a fresh
\* deployment; the DynamoDB tables start empty
SeededFile(v) ==
  [k \in 1..(IF v = "tb" THEN NumSeedVideosOriginal ELSE NumSeedVideos) |-> SeedItem(v, k)]

\* ------------------------------------------------------------ store reads
\* v.likeCount || 0
LikeCountOf(item) == IF Has(item, "likeCount") THEN item.likeCount ELSE 0

\* v.comments || []
CommentsOf(item) == IF Has(item, "comments") THEN item.comments ELSE <<>>

\* the like-witness of an item as a list of user-id strings
WitnessList(item) ==
  IF Has(item, "likes") THEN item.likes ELSE <<>>

\* the user ids recorded in the witness (likes list / likesByUser map)
WitnessSet(item) ==
  IF Has(item, "likes") THEN Elems(item.likes)
  ELSE IF Has(item, "likesByUser") THEN item.likesByUser
  ELSE {}

StoredUsers ==
  IF variant \in Managed THEN {users[n] : n \in DOMAIN users}
  ELSE Elems(users)

\* users.find(x => x.username.toLowerCase() === String(username).toLowerCase())
FindUserFile(list, username) ==
  LET hits == {i \in 1..Len(list) : toLowerCase(list[i].username) = toLowerCase(username)}
  IN IF hits = {} THEN <<>>
     ELSE <<list[CHOOSE i \in hits : \A j \in hits : i <= j]>>

\* GetCommand on USERS_TABLE
GetUserItem(table, username) ==
  IF username \in DOMAIN table THEN <<table[username]>> ELSE <<>>

\* ------------------------------------------------------------- requests
\* A request slot.  kind/pc say which handler runs and where it is suspended;
\* sess is req.session.user as the request's cookie carried it; status and
\* body are the response once pc = "done".  conc, inc, wasIn, existed and
\* reseeded are history: the slots whose request overlapped this one, what a
\* like did to likeCount, whether its user was in the witness (for a signup:
\* its name in the user store when it arrived) and the video stored when it
\* was applied, and whether seeding rewrote the video since.  author is a
\* user field the client put in the request body, newpw the newPassword of
\* a password change.  failed records that a store call of the request was
\* rejected by the table service.
IdleProc ==
  [kind |-> "none", pc |-> "idle", client |-> "-", sess |-> <<>>, vid |-> 0,
   uname |-> <<>>, pw |-> "", newpw |-> "", text |-> <<>>, author |-> <<>>,
   k |-> 0, snap |-> <<>>, cmt |-> <<>>,
   status |-> 0, body |-> <<>>,
   conc |-> {}, inc |-> 0, wasIn |-> FALSE, existed |-> FALSE, reseeded |-> FALSE,
   failed |-> FALSE]

InFlight == {q \in Procs : proc[q].pc \notin {"idle", "done"}}

\* a new request takes the lowest slot that holds no request in flight
CanStart(p) ==
  /\ nreq < MaxRequests
  /\ p \notin InFlight
  /\ \A q \in Procs : q < p => q \in InFlight

NewReq(kind, c) == [IdleProc EXCEPT !.kind = kind, !.client = c, !.sess = session[c]]

\* the response: res.status(status).json(body); the handler's locals are gone
Respond(r, status, body) ==
  [r EXCEPT !.pc = "done", !.status = status, !.body = body,
            !.snap = <<>>, !.cmt = <<>>, !.k = 0,
            !.sess = IF r.kind \in {"like", "comment"} THEN @ ELSE <<>>]

Suspend(r, pc) == [r EXCEPT !.pc = pc]

\* slot p takes a new request, whose state after its first run is r
Begin(p, r) ==
  /\ proc' = [q \in Procs |->
        IF q = p THEN [r EXCEPT !.conc = InFlight \ {p}]
        ELSE IF q \in InFlight THEN [proc[q] EXCEPT !.conc = @ \cup {p}]
        ELSE [proc[q] EXCEPT !.conc = @ \ {p}]]
  /\ nreq' = nreq + 1

Step(p, r) == proc' = [proc EXCEPT ![p] = r] /\ nreq' = nreq

At(p, kind, pc) == proc[p].kind = kind /\ proc[p].pc = pc

\* mutant: the whole user record goes into the cookie
SetSessionWholeRecord(c, user) == session' = [session EXCEPT ![c] = <<user>>]

\* req.session.user = { id: user.id, username: user.username }
SetSession(c, user) ==
  session' = [session EXCEPT ![c] = <<[id |-> user.id, username |-> user.username]>>]

\* -------------------------------------------------------------- signup
\* the field checks of POST /api/auth/signup; "" when the fields pass
SignupFieldError(un, pw) ==
  IF un = <<>> \/ pw = "" THEN "missing_credentials"
  ELSE IF Len(un) < MinUsernameLen THEN "username_too_short"
  ELSE IF Len(pw) < MinPasswordLen THEN "password_too_short"
  ELSE ""

\* mutant: the lookup compares spellings as they are
NameTakenExact(list, un) == \E i \in 1..Len(list) : list[i].username = un

\* users.some(u => u.username.toLowerCase() === String(username).toLowerCase())
NameTakenFile(list, un) == FindUserFile(list, un) # <<>>

\* a record that a signup for un collides with is stored
NameStored(un) ==
  IF variant \in Managed THEN un \in DOMAIN users
  ELSE \E i \in 1..Len(users) : toLowerCase(users[i].username) = toLowerCase(un)

NewUser(un, pw) == [id |-> now, username |-> un, passwordHash |-> bcryptHash(pw)]

\* the handler up to its first suspension: the field checks, then the lookup
\* (a table read in flight; a synchronous file read in the file servers)
StartSignup(p, c, un, pw) ==
  /\ CanStart(p)
  /\ variant \in SessionEnabled
  /\ LET r == [NewReq("signup", c) EXCEPT !.uname = un, !.pw = pw, !.wasIn = NameStored(un)]
         e == SignupFieldError(un, pw)
     IN Begin(p,
          IF e # "" THEN Respond(r, 400, [error |-> e])
          ELSE IF variant \in Managed THEN Suspend(r, "getUser")
          ELSE IF NameTakenFile(users, un) THEN Respond(r, 409, [error |-> "username_taken"])
          ELSE IF variant = "p2" THEN Suspend([r EXCEPT !.snap = users], "createUser")
          ELSE Suspend(r, "createUser"))
  /\ UNCHANGED <<variant, users, videos, session, now>>

\* mutant: a refused signup resets the session
SignupGetUserResetsSession(p) ==
  /\ At(p, "signup", "getUser")
  /\ LET r == proc[p]
         taken == GetUserItem(users, r.uname) # <<>>
     IN /\ Step(p, IF taken THEN Respond(r, 409, [error |-> "username_taken"])
                   ELSE Suspend(r, "createUser"))
        /\ session' = IF taken THEN [session EXCEPT ![r.client] = <<>>] ELSE session
  /\ UNCHANGED <<variant, users, videos, now>>

\* store.getUser answers (DynamoDB servers)
SignupGetUser(p) ==
  /\ At(p, "signup", "getUser")
  /\ LET r == proc[p]
     IN Step(p, IF GetUserItem(users, r.uname) # <<>>
                THEN Respond(r, 409, [error |-> "username_taken"])
                ELSE Suspend(r, "createUser"))
  /\ UNCHANGED <<variant, users, videos, session, now>>

\* bcrypt.hash has answered: the insert, the session and the response
SignupCreateUser(p) ==
  /\ At(p, "signup", "createUser")
  /\ LET r == proc[p]
         user == NewUser(r.uname, r.pw)
         created == Respond(r, 201, [ok |-> TRUE, username |-> user.username])
     IN IF variant \in Managed
        THEN \* PutCommand with attribute_not_exists(username)
             IF r.uname \in DOMAIN users
             THEN /\ Step(p, Respond(r, 500, [error |-> "signup_failed"]))
                  /\ UNCHANGED <<users, session>>
             ELSE /\ users' = SetAttr(users, r.uname, user)
                  /\ SetSession(r.client, user)
                  /\ Step(p, created)
        ELSE IF variant = "p1file"
        THEN \* store.createUser reads users.json again
             IF NameTakenFile(users, r.uname)
             THEN /\ Step(p, Respond(r, 500, [error |-> "username_taken"]))
                  /\ UNCHANGED <<users, session>>
             ELSE /\ users' = Append(users, user)
                  /\ SetSession(r.client, user)
                  /\ Step(p, created)
        ELSE \* part_002 pushes onto the list it read before bcrypt.hash
             /\ users' = Append(r.snap, user)
             /\ SetSession(r.client, user)
             /\ Step(p, created)
  /\ UNCHANGED <<variant, videos, now>>

\* --------------------------------------------------------------- login
\* mutant: a stored name is enough
LoginResultNoCompare(r, found) ==
  IF found = <<>> THEN Respond(r, 401, [error |-> "invalid_login"])
  ELSE Respond(r, 200, [ok |-> TRUE, username |-> found[1].username])

LoginResult(r, found) ==
  IF found = <<>> THEN Respond(r, 401, [error |-> "invalid_login"])
  ELSE IF ~bcryptCompare(r.pw, found[1].passwordHash)
       THEN Respond(r, 401, [error |-> "invalid_login"])
       ELSE Respond(r, 200, [ok |-> TRUE, username |-> found[1].username])

StartLogin(p, c, un, pw) ==
  /\ CanStart(p)
  /\ variant \in SessionEnabled
  /\ LET r == [NewReq("login", c) EXCEPT !.uname = un, !.pw = pw]
     IN Begin(p,
          IF variant \in Managed THEN Suspend(r, "getUser")
          ELSE LET found == FindUserFile(users, un)
               IN IF found = <<>> THEN LoginResult(r, found)
                  ELSE Suspend([r EXCEPT !.snap = found], "compare"))
  /\ UNCHANGED <<variant, users, videos, session, now>>

\* the lookup and bcrypt.compare have answered
LoginFinish(p) ==
  /\ \/ At(p, "login", "getUser")
     \/ At(p, "login", "compare")
  /\ LET r == proc[p]
         found == IF variant \in Managed THEN GetUserItem(users, r.uname) ELSE r.snap
         res == LoginResult(r, found)
     IN /\ Step(p, res)
        /\ IF res.status = 200 THEN SetSession(r.client, found[1])
           ELSE UNCHANGED session
  /\ UNCHANGED <<variant, users, videos, now>>

\* POST /api/auth/logout: req.session = null
Logout(p, c) ==
  /\ CanStart(p)
  /\ variant \in SessionEnabled
  /\ Begin(p, Respond(NewReq("logout", c), 200, [ok |-> TRUE]))
  /\ session' = [session EXCEPT ![c] = <<>>]
  /\ UNCHANGED <<variant, users, videos, now>>

\* ---------------------------------------------------------------- feed
RECURSIVE Ascending(_)
Ascending(S) ==
  IF S = {} THEN <<>>
  ELSE LET m == CHOOSE x \in S : \A y \in S : x <= y
       IN <<m>> \o Ascending(S \ {m})

\* item restricted to the attributes in keep that it has
Pick(item, keep) == [a \in DOMAIN item \cap keep |-> item[a]]

\* mutant: the projection spreads the whole item
ProjectionWholeItem(v, item) ==
  SetAttr(SetAttr(item, "likeCount", LikeCountOf(item)), "commentCount", Len(CommentsOf(item)))

\* the public projection of one item, as server v builds it
Projection(v, item) ==
  IF v = "tb"
  THEN SetAttr(Pick(item, DOMAIN item \ {"comments"}), "commentCount", Len(CommentsOf(item)))
  ELSE IF v = "p2"
  THEN SetAttr(Pick(item, DOMAIN item \ {"comments", "likesByUser"}),
               "commentCount", Len(CommentsOf(item)))
  ELSE SetAttr(SetAttr(Pick(item, {"id", "src", "username", "caption", "music"}),
                       "likeCount", LikeCountOf(item)),
               "commentCount", Len(CommentsOf(item)))

\* store.listVideos / the map of GET /api/feed
listVideos(v, table) ==
  LET ids == Ascending(DOMAIN table)
  IN [i \in 1..Len(ids) |-> Projection(v, table[ids[i]])]

\* GET /api/feed: the file servers answer at once, the DynamoDB servers
\* first await the Scan of ensureSeedVideos
StartFeed(p) ==
  /\ CanStart(p)
  /\ LET r == [IdleProc EXCEPT !.kind = "feed"]
     IN Begin(p, IF variant \in Managed THEN Suspend(r, "seedScan")
                 ELSE Respond(r, 200, listVideos(variant, videos)))
  /\ UNCHANGED <<variant, users, videos, session, now>>

\* mutant: the seed is written whatever the Scan returned
FeedSeedScanUnguarded(p) ==
  /\ At(p, "feed", "seedScan")
  /\ Step(p, Suspend([proc[p] EXCEPT !.k = 1], "seedPut"))
  /\ UNCHANGED <<variant, users, videos, session, now>>

\* ensureSeedVideos: Scan with Limit 1 has answered
FeedSeedScan(p) ==
  /\ At(p, "feed", "seedScan")
  /\ Step(p, IF DOMAIN videos # {} THEN Suspend(proc[p], "listVideos")
             ELSE Suspend([proc[p] EXCEPT !.k = 1], "seedPut"))
  /\ UNCHANGED <<variant, users, videos, session, now>>

\* ensureSeedVideos: one PutCommand of the loop has answered
FeedSeedPut(p) ==
  /\ At(p, "feed", "seedPut")
  /\ LET k == proc[p].k
     IN /\ videos' = SetAttr(videos, k, SeedItem(variant, k))
        /\ proc' = [q \in Procs |->
              IF q = p
              THEN IF k = NumSeedVideos THEN Suspend([proc[p] EXCEPT !.k = 0], "listVideos")
                   ELSE [proc[p] EXCEPT !.k = k + 1]
              ELSE IF proc[q].pc # "idle" /\ proc[q].vid = k
                   THEN [proc[q] EXCEPT !.reseeded = TRUE]
                   ELSE proc[q]]
        /\ nreq' = nreq
  /\ UNCHANGED <<variant, users, session, now>>

\* store.listVideos has answered
FeedList(p) ==
  /\ At(p, "feed", "listVideos")
  /\ Step(p, Respond(proc[p], 200, listVideos(variant, videos)))
  /\ UNCHANGED <<variant, users, videos, session, now>>

\* ---------------------------------------------------------------- like
\* requireAuth
Authorized(r) == variant \notin SessionEnabled \/ r.sess # <<>>

\* mutant: the gate refuses with another status
UnauthorizedForbidden(r) == Respond(r, 403, [error |-> "forbidden"])

Unauthorized(r) == Respond(r, 401, [error |-> "unauthorized"])

NotFound(r) == Respond(r, 404, [error |-> "not_found"])

\* mutant: the update carries no condition
LikeConditionDropped(item, uid) == TRUE

\* ConditionExpression "attribute_not_exists(likes) OR NOT contains(likes, :u)"
LikeCondition(item, uid) == ~Has(item, "likes") \/ uid \notin Elems(item.likes)

\* mutant: the update counts the like and records no user id
LikeUpdateExprNoWitness(item, uid) == SetAttr(item, "likeCount", LikeCountOf(item) + 1)

\* UpdateExpression "ADD likeCount :one SET likes = list_append(if_not_exists(likes, :empty), :uid)"
LikeUpdateExpr(item, uid) ==
  SetAttr(SetAttr(item, "likeCount", LikeCountOf(item) + 1),
          "likes", Append(WitnessList(item), uid))

\* an UpdateCommand works on the stored item, or on the bare key when none is stored
ItemOrKey(table, id) == IF id \in DOMAIN table THEN table[id] ELSE [id |-> id]

\* mutant: the write starts from a witness that misses the other users
LikeFileItemStaleWitness(item, uid) ==
  SetAttr(SetAttr(item, "likesByUser", {uid}), "likeCount", 1)

\* mutant: the read-modify-write without the double-like check
LikeFileItemNoCheck(item, uid) ==
  SetAttr(SetAttr(item, "likesByUser",
                  (IF Has(item, "likesByUser") THEN item.likesByUser ELSE {}) \cup {uid}),
          "likeCount", LikeCountOf(item) + 1)

\* the read-modify-write of the file servers with sessions
LikeFileItem(item, uid) ==
  LET byUser == IF Has(item, "likesByUser") THEN item.likesByUser ELSE {}
  IN IF uid \in byUser THEN SetAttr(item, "likesByUser", byUser)
     ELSE SetAttr(SetAttr(item, "likesByUser", byUser \cup {uid}),
                  "likeCount", LikeCountOf(item) + 1)

\* the original server counts every call
LikeOriginalItem(item) == SetAttr(item, "likeCount", LikeCountOf(item) + 1)

UserKey(r) == IF r.sess = <<>> THEN "" ELSE StringOf(r.sess[1].id)

\* history of a like: what it found and what it did to likeCount
Liked(r, before, after) ==
  [r EXCEPT !.existed = r.vid \in DOMAIN before,
            !.wasIn = r.vid \in DOMAIN before /\ UserKey(r) \in WitnessSet(before[r.vid]),
            !.inc = LikeCountOf(ItemOrKey(after, r.vid)) - LikeCountOf(ItemOrKey(before, r.vid))]

\* POST /api/videos/:id/like up to its first suspension
StartLike(p, c, id) ==
  /\ CanStart(p)
  /\ LET r == [NewReq("like", c) EXCEPT !.vid = id]
     IN IF ~Authorized(r)
        THEN Begin(p, Unauthorized(r)) /\ UNCHANGED videos
        ELSE IF variant \in Managed
        THEN Begin(p, Suspend(r, "update")) /\ UNCHANGED videos
        ELSE IF id \notin DOMAIN videos
        THEN Begin(p, NotFound(Liked(r, videos, videos))) /\ UNCHANGED videos
        ELSE LET item == IF variant = "tb" THEN LikeOriginalItem(videos[id])
                         ELSE LikeFileItem(videos[id], UserKey(r))
                 after == SetAttr(videos, id, item)
             IN /\ videos' = after
                /\ Begin(p, Respond(Liked(r, videos, after), 200,
                                    [id |-> id, likeCount |-> item.likeCount]))
  /\ UNCHANGED <<variant, users, session, now>>

\* store.likeVideo (DynamoDB): the conditional UpdateCommand has answered
LikeUpdate(p) ==
  /\ At(p, "like", "update")
  /\ LET r == proc[p]
         item == ItemOrKey(videos, r.vid)
         new == LikeUpdateExpr(item, UserKey(r))
         after == SetAttr(videos, r.vid, new)
     IN IF LikeCondition(item, UserKey(r))
        THEN /\ videos' = after
             /\ Step(p, Respond(Liked(r, videos, after), 200,
                                [id |-> r.vid, likeCount |-> LikeCountOf(new)]))
        ELSE \* ConditionalCheckFailedException
             /\ UNCHANGED videos
             /\ Step(p, IF variant = "p0" THEN NotFound(Liked(r, videos, videos))
                        ELSE Suspend(Liked(r, videos, videos), "listVideos"))
  /\ UNCHANGED <<variant, users, session, now>>

\* part_001 after a rejected update: store.listVideos has answered
LikeList(p) ==
  /\ At(p, "like", "listVideos")
  /\ LET r == proc[p]
         list == listVideos(variant, videos)
         hits == {i \in 1..Len(list) : list[i].id = r.vid}
     IN Step(p, Respond(r, 200,
                [id |-> r.vid,
                 likeCount |-> IF hits = {} THEN 0
                               ELSE list[CHOOSE i \in hits : TRUE].likeCount]))
  /\ UNCHANGED <<variant, users, videos, session, now>>

\* ------------------------------------------------------------- comments
\* mutant: the length check is off by one
CommentTextErrorOffByOne(text) ==
  IF Len(text) < 1 THEN "empty_comment"
  ELSE IF Len(text) >= MaxCommentLen THEN "too_long"
  ELSE ""

\* the text checks of POST /api/videos/:id/comments on the trimmed text
CommentTextError(text) ==
  IF Len(text) < 1 THEN "empty_comment"
  ELSE IF Len(text) > MaxCommentLen THEN "too_long"
  ELSE ""

\* mutant: the author is taken from the request body when it names one
NewCommentFromBody(v, r, text) ==
  IF v = "tb" THEN [id |-> now, text |-> text, at |-> now]
  ELSE [id |-> now, user |-> IF r.author # <<>> THEN r.author ELSE r.sess[1].username,
        text |-> text, at |-> now]

\* the comment object; the original server records no user
NewComment(v, r, text) ==
  IF v = "tb" THEN [id |-> now, text |-> text, at |-> now]
  ELSE [id |-> now, user |-> r.sess[1].username, text |-> text, at |-> now]

\* mutant: the update appends the comment and leaves the counter alone
CommentUpdateExprNoCount(item, c) == SetAttr(item, "comments", Append(CommentsOf(item), c))

\* UpdateExpression "SET comments = list_append(if_not_exists(comments, :empty), :c),
\*                   commentCount = if_not_exists(commentCount, :zero) + :one"
CommentUpdateExpr(item, c) ==
  SetAttr(SetAttr(item, "comments", Append(CommentsOf(item), c)),
          "commentCount", (IF Has(item, "commentCount") THEN item.commentCount ELSE 0) + 1)

\* mutant: the new comment goes to the front of the list
CommentFileItemUnshift(item, c) == SetAttr(item, "comments", <<c>> \o CommentsOf(item))

\* vid.comments = vid.comments || []; vid.comments.push(comment)
CommentFileItem(item, c) == SetAttr(item, "comments", Append(CommentsOf(item), c))

\* POST /api/videos/:id/comments up to its first suspension; the body is
\* {text: raw, user: author} (no user field when author is empty)
StartComment(p, c, id, raw, author) ==
  /\ CanStart(p)
  /\ LET r == [NewReq("comment", c) EXCEPT !.vid = id, !.text = raw, !.author = author]
         text == trim(raw)
         e == CommentTextError(text)
     IN IF ~Authorized(r)
        THEN Begin(p, Unauthorized(r)) /\ UNCHANGED videos
        ELSE IF e # ""
        THEN Begin(p, Respond(r, 400, [error |-> e])) /\ UNCHANGED videos
        ELSE IF variant \in Managed
        THEN /\ Begin(p, Suspend([r EXCEPT !.cmt = <<NewComment(variant, r, text)>>], "update"))
             /\ UNCHANGED videos
        ELSE IF id \notin DOMAIN videos
        THEN Begin(p, NotFound(r)) /\ UNCHANGED videos
        ELSE LET comment == NewComment(variant, r, text)
             IN /\ videos' = SetAttr(videos, id, CommentFileItem(videos[id], comment))
                /\ Begin(p, Respond(r, 201, [ok |-> TRUE, comment |-> comment]))
  /\ UNCHANGED <<variant, users, session, now>>

\* store.addComment (DynamoDB): the UpdateCommand has answered
CommentUpdate(p) ==
  /\ At(p, "comment", "update")
  /\ LET r == proc[p]
         comment == r.cmt[1]
     IN /\ videos' = SetAttr(videos, r.vid, CommentUpdateExpr(ItemOrKey(videos, r.vid), comment))
        /\ Step(p, Respond(r, 201, [ok |-> TRUE, comment |-> comment]))
  /\ UNCHANGED <<variant, users, session, now>>

\* ------------------------------------------------- comments, read side
\* GET /api/videos/:id/comments.  part_002 declares the handler's first
\* parameter as _req and reads req.params.id: the ReferenceError is answered
\* by Express's error handler.
StartGetComments(p, id) ==
  /\ CanStart(p)
  /\ LET r == [IdleProc EXCEPT !.kind = "getComments", !.vid = id]
     IN Begin(p,
          IF variant \in Managed THEN Suspend(r, "getItem")
          ELSE IF variant = "p2" THEN Respond(r, 500, <<>>)
          ELSE IF id \notin DOMAIN videos THEN NotFound(r)
          ELSE Respond(r, 200, [id |-> id, comments |-> CommentsOf(videos[id])]))
  /\ UNCHANGED <<variant, users, videos, session, now>>

\* store.getComments (DynamoDB): the GetCommand has answered
GetCommentsFinish(p) ==
  /\ At(p, "getComments", "getItem")
  /\ LET r == proc[p]
     IN Step(p,
          IF r.vid \in DOMAIN videos
          THEN Respond(r, 200, [id |-> r.vid, comments |-> CommentsOf(videos[r.vid])])
          ELSE IF variant = "p0" THEN Respond(r, 200, [id |-> r.vid, comments |-> <<>>])
          ELSE NotFound(r))
  /\ UNCHANGED <<variant, users, videos, session, now>>

\* -------------------------------------------------------- account center
\* u?.courses || []
CoursesOf(found) ==
  IF found # <<>> /\ Has(found[1], "courses") THEN found[1].courses ELSE <<>>

\* an UpdateCommand on USERS_TABLE works on the stored item, or on the bare key
UserItemOrKey(table, un) == IF un \in DOMAIN table THEN table[un] ELSE [username |-> un]

\* (u.courses || []).filter(c => c !== name)
FilterCourses(courses, name) == SelectSeq(courses, LAMBDA c : c # name)

\* only part_000 registers the /api/account routes; elsewhere Express finds
\* no route and answers 404
HasAccountRoutes == variant = "p0"

NoRoute(r) == Respond(r, 404, <<>>)

\* GET /api/account/courses up to its first suspension
StartListCourses(p, c) ==
  /\ CanStart(p)
  /\ LET r == NewReq("listCourses", c)
     IN Begin(p, IF ~HasAccountRoutes THEN NoRoute(r)
                 ELSE IF ~Authorized(r) THEN Unauthorized(r)
                 ELSE Suspend(r, "getUser"))
  /\ UNCHANGED <<variant, users, videos, session, now>>

\* store.listCourses: getUserItem has answered
ListCoursesFinish(p) ==
  /\ At(p, "listCourses", "getUser")
  /\ LET r == proc[p]
     IN Step(p, Respond(r, 200,
                  [courses |-> CoursesOf(GetUserItem(users, r.sess[1].username))]))
  /\ UNCHANGED <<variant, users, videos, session, now>>

\* POST /api/account/courses up to its first suspension
StartAddCourse(p, c, raw) ==
  /\ CanStart(p)
  /\ LET r == [NewReq("addCourse", c) EXCEPT !.text = trim(raw)]
     IN Begin(p, IF ~HasAccountRoutes THEN NoRoute(r)
                 ELSE IF ~Authorized(r) THEN Unauthorized(r)
                 ELSE IF r.text = <<>> THEN Respond(r, 400, [error |-> "empty_course"])
                 ELSE Suspend(r, "update"))
  /\ UNCHANGED <<variant, users, videos, session, now>>

\* store.addCourse: the UpdateCommand has answered
AddCourseUpdate(p) ==
  /\ At(p, "addCourse", "update")
  /\ LET r == proc[p]
         un == r.sess[1].username
         item == UserItemOrKey(users, un)
         courses == Append(CoursesOf(<<item>>), r.text)
     IN /\ users' = SetAttr(users, un, SetAttr(item, "courses", courses))
        /\ Step(p, Respond(r, 201, [ok |-> TRUE, courses |-> courses]))
  /\ UNCHANGED <<variant, videos, session, now>>

\* DELETE /api/account/courses up to its first suspension
StartRemoveCourse(p, c, raw) ==
  /\ CanStart(p)
  /\ LET r == [NewReq("removeCourse", c) EXCEPT !.text = trim(raw)]
     IN Begin(p, IF ~HasAccountRoutes THEN NoRoute(r)
                 ELSE IF ~Authorized(r) THEN Unauthorized(r)
                 ELSE IF r.text = <<>> THEN Respond(r, 400, [error |-> "empty_course"])
                 ELSE Suspend(r, "getUser"))
  /\ UNCHANGED <<variant, users, videos, session, now>>

\* store.removeCourse: getUserItem has answered.  Without a record the
\* store throws in a handler that has no try: the promise is rejected and
\* the request gets no answer.
RemoveCourseGet(p) ==
  /\ At(p, "removeCourse", "getUser")
  /\ LET r == proc[p]
         found == GetUserItem(users, r.sess[1].username)
     IN Step(p, IF found = <<>> THEN Suspend(r, "rejected")
                ELSE Suspend([r EXCEPT !.snap = found], "put"))
  /\ UNCHANGED <<variant, users, videos, session, now>>

\* store.removeCourse: the PutCommand of { ...u, username, courses: next }
RemoveCoursePut(p) ==
  /\ At(p, "removeCourse", "put")
  /\ LET r == proc[p]
         un == r.sess[1].username
         next == FilterCourses(CoursesOf(r.snap), r.text)
     IN /\ users' = SetAttr(users, un,
                       SetAttr(SetAttr(r.snap[1], "username", un), "courses", next))
        /\ Step(p, Respond(r, 200, [ok |-> TRUE, courses |-> next]))
  /\ UNCHANGED <<variant, videos, session, now>>

\* POST /api/account/password up to its first suspension
StartChangePassword(p, c, old, new) ==
  /\ CanStart(p)
  /\ LET r == [NewReq("password", c) EXCEPT !.pw = old, !.newpw = new]
     IN Begin(p, IF ~HasAccountRoutes THEN NoRoute(r)
                 ELSE IF ~Authorized(r) THEN Unauthorized(r)
                 ELSE IF Len(new) < MinPasswordLen
                      THEN Respond(r, 400, [error |-> "password_too_short"])
                 ELSE Suspend(r, "getUser"))
  /\ UNCHANGED <<variant, users, videos, session, now>>

InvalidOldPassword(r) == Respond(r, 401, [error |-> "invalid_old_password"])

\* store.changePassword: getUserItem has answered
ChangePasswordGet(p) ==
  /\ At(p, "password", "getUser")
  /\ LET r == proc[p]
         found == GetUserItem(users, r.sess[1].username)
     IN Step(p, IF found = <<>> THEN InvalidOldPassword(r)
                ELSE Suspend([r EXCEPT !.snap = found], "compare"))
  /\ UNCHANGED <<variant, users, videos, session, now>>

\* mutant: the old password is not checked
OldPasswordOkAlways(pw, item) == Has(item, "passwordHash")

\* bcrypt.compare(oldPassword, u.passwordHash) on the record read
OldPasswordOk(pw, item) == Has(item, "passwordHash") /\ bcryptCompare(pw, item.passwordHash)

\* store.changePassword: bcrypt.compare has answered (it throws for a
\* record without a hash, which the route answers 500)
ChangePasswordCompare(p) ==
  /\ At(p, "password", "compare")
  /\ LET r == proc[p]
     IN Step(p, IF ~Has(r.snap[1], "passwordHash")
                THEN Respond(r, 500, [error |-> "password_change_failed"])
                ELSE IF ~OldPasswordOk(r.pw, r.snap[1]) THEN InvalidOldPassword(r)
                ELSE Suspend(r, "update"))
  /\ UNCHANGED <<variant, users, videos, session, now>>

\* store.changePassword: bcrypt.hash and the UpdateCommand have answered
ChangePasswordUpdate(p) ==
  /\ At(p, "password", "update")
  /\ LET r == proc[p]
         un == r.sess[1].username
     IN /\ users' = SetAttr(users, un,
                       SetAttr(UserItemOrKey(users, un), "passwordHash", bcryptHash(r.newpw)))
        /\ Step(p, Respond(r, 200, [ok |-> TRUE]))
  /\ UNCHANGED <<variant, videos, session, now>>

\* ------------------------------------------------ storage backend faults
\* The DynamoDB client's send() rejects for a reason other than a failed
\* condition (the table service is unavailable): nothing is written, and
\* the awaited store call throws into the route.
Failed(r) == [r EXCEPT !.failed = TRUE]

\* signup: store.getUser or store.createUser throws; the route's catch
SignupStoreFails(p) ==
  /\ variant \in Managed
  /\ At(p, "signup", "getUser") \/ At(p, "signup", "createUser")
  /\ Step(p, Respond(Failed(proc[p]), 500, [error |-> "signup_failed"]))
  /\ UNCHANGED <<variant, users, videos, session, now>>

\* login: store.getUser throws; the route's catch
LoginStoreFails(p) ==
  /\ variant \in Managed
  /\ At(p, "login", "getUser")
  /\ Step(p, Respond(Failed(proc[p]), 500, [error |-> "login_failed"]))
  /\ UNCHANGED <<variant, users, videos, session, now>>

\* like: store.likeVideo throws; part_000 answers every error with 404,
\* part_001 every error that is not the rejected condition
LikeStoreFails(p) ==
  /\ At(p, "like", "update")
  /\ Step(p, NotFound(Failed(Liked(proc[p], videos, videos))))
  /\ UNCHANGED <<variant, users, videos, session, now>>

\* part_001 after a rejected condition: store.listVideos throws inside the
\* catch block, the handler's promise is rejected and nothing is answered
LikeListFails(p) ==
  /\ At(p, "like", "listVideos")
  /\ Step(p, Suspend(Failed(proc[p]), "rejected"))
  /\ UNCHANGED <<variant, users, videos, session, now>>

\* comment: store.addComment throws; the route's catch
CommentStoreFails(p) ==
  /\ At(p, "comment", "update")
  /\ Step(p, NotFound(Failed(proc[p])))
  /\ UNCHANGED <<variant, users, videos, session, now>>

\* get-comments: store.getComments throws; part_000's catch answers 404,
\* part_001's handler has no try and its promise is rejected
GetCommentsStoreFails(p) ==
  /\ At(p, "getComments", "getItem")
  /\ Step(p, IF variant = "p0" THEN NotFound(Failed(proc[p]))
             ELSE Suspend(Failed(proc[p]), "rejected"))
  /\ UNCHANGED <<variant, users, videos, session, now>>

\* ---------------------------------------------------------------- clock
Tick ==
  /\ now < MaxNow
  /\ now' = now + 1
  /\ UNCHANGED <<variant, users, videos, session, proc, nreq>>

\* ------------------------------------------------------------ the system
\* request inputs
Bob == <<"b", "o", "b">>
BobUpper == <<"B", "o", "b">>
SignupInputs == {<<<<>>, "secret1">>, <<<<"a", "b">>, "secret1">>, <<Bob, "short">>,
                 <<Bob, "secret1">>, <<Bob, "other12">>, <<BobUpper, "other12">>}
LoginInputs == {<<Bob, "secret1">>, <<Bob, "other12">>, <<BobUpper, "other12">>}
VideoIdInputs == {1, 9}
TextInputs == {<<>>, <<" ", " ">>, <<" ", "h", "i", " ">>,
               Rep("x", MaxCommentLen), <<" ">> \o Rep("x", MaxCommentLen + 1)}

Init ==
  /\ variant \in Variants
  /\ users = <<>>
  /\ videos = IF variant \in Managed THEN EmptyTable ELSE SeededFile(variant)
  /\ session = [c \in Clients |-> <<>>]
  /\ now = 1
  /\ proc = [p \in Procs |-> IdleProc]
  /\ nreq = 0

Amy == <<"a", "m", "y">>
AuthorInputs == {<<>>, Amy}
ValidNames == {Bob, Amy}
ShortText == <<" ", "h", "i", " ">>

\* the account routes
NextAuth ==
  \/ \E p \in Procs, c \in Clients, in \in SignupInputs : StartSignup(p, c, in[1], in[2])
  \/ \E p \in Procs : SignupGetUser(p)
  \/ \E p \in Procs : SignupCreateUser(p)
  \/ \E p \in Procs, c \in Clients, in \in LoginInputs : StartLogin(p, c, in[1], in[2])
  \/ \E p \in Procs : LoginFinish(p)
  \/ \E p \in Procs, c \in Clients : Logout(p, c)
  \/ Tick

SpecAuth == Init /\ [][NextAuth]_vars

\* the video routes, with accounts created by well-formed signups
NextVideo ==
  \/ \E p \in Procs, c \in Clients, un \in ValidNames : StartSignup(p, c, un, "secret1")
  \/ \E p \in Procs : SignupGetUser(p)
  \/ \E p \in Procs : SignupCreateUser(p)
  \/ \E p \in Procs : StartFeed(p)
  \/ \E p \in Procs : FeedSeedScan(p)
  \/ \E p \in Procs : FeedSeedPut(p)
  \/ \E p \in Procs : FeedList(p)
  \/ \E p \in Procs, c \in Clients, id \in VideoIdInputs : StartLike(p, c, id)
  \/ \E p \in Procs : LikeUpdate(p)
  \/ \E p \in Procs : LikeList(p)
  \/ \E p \in Procs, c \in Clients, id \in VideoIdInputs : StartComment(p, c, id, ShortText, <<>>)
  \/ \E p \in Procs : CommentUpdate(p)
  \/ Tick

SpecVideo == Init /\ [][NextVideo]_vars

\* the comment route over every text input
NextComment ==
  \/ \E p \in Procs : StartSignup(p, "c1", Bob, "secret1")
  \/ \E p \in Procs : SignupGetUser(p)
  \/ \E p \in Procs : SignupCreateUser(p)
  \/ \E p \in Procs, c \in Clients, id \in VideoIdInputs, raw \in TextInputs,
        author \in AuthorInputs :
       StartComment(p, c, id, raw, author)
  \/ \E p \in Procs : CommentUpdate(p)
  \/ Tick

SpecComment == Init /\ [][NextComment]_vars

\* the account center next to the session and video routes.  The session
\* lives in the client's signed cookie and the tables outside the process:
\* a client may arrive with a cookie for an account the table does not hold.
CourseInputs == {<<" ">>, <<"m">>, <<" ", "a", " ">>}
PasswordInputs == {<<"secret1", "newpass1">>, <<"wrong12", "newpass1">>, <<"secret1", "short">>}
AccountLoginInputs == {<<Bob, "secret1">>, <<Bob, "newpass1">>}
StaleUser == [id |-> 0, username |-> Amy]

InitAccount ==
  /\ variant \in Variants
  /\ users = <<>>
  /\ videos = IF variant \in Managed THEN EmptyTable ELSE SeededFile(variant)
  /\ session \in {[c \in Clients |-> <<>>]} \cup
                 (IF variant \in SessionEnabled
                  THEN {[c \in Clients |-> IF c = "c2" THEN <<StaleUser>> ELSE <<>>]}
                  ELSE {})
  /\ now = 1
  /\ proc = [p \in Procs |-> IdleProc]
  /\ nreq = 0

NextAccount ==
  \/ \E p \in Procs : StartSignup(p, "c1", Bob, "secret1")
  \/ \E p \in Procs : SignupGetUser(p)
  \/ \E p \in Procs : SignupCreateUser(p)
  \/ \E p \in Procs, in \in AccountLoginInputs : StartLogin(p, "c1", in[1], in[2])
  \/ \E p \in Procs : LoginFinish(p)
  \/ \E p \in Procs : Logout(p, "c1")
  \/ \E p \in Procs, c \in Clients : StartListCourses(p, c)
  \/ \E p \in Procs : ListCoursesFinish(p)
  \/ \E p \in Procs, c \in Clients, raw \in CourseInputs : StartAddCourse(p, c, raw)
  \/ \E p \in Procs : AddCourseUpdate(p)
  \/ \E p \in Procs, c \in Clients, raw \in CourseInputs : StartRemoveCourse(p, c, raw)
  \/ \E p \in Procs : RemoveCourseGet(p)
  \/ \E p \in Procs : RemoveCoursePut(p)
  \/ \E p \in Procs, c \in Clients, in \in PasswordInputs :
       StartChangePassword(p, c, in[1], in[2])
  \/ \E p \in Procs : ChangePasswordGet(p)
  \/ \E p \in Procs : ChangePasswordCompare(p)
  \/ \E p \in Procs : ChangePasswordUpdate(p)
  \/ \E p \in Procs, c \in Clients : StartLike(p, c, 1)
  \/ \E p \in Procs : LikeUpdate(p)
  \/ \E p \in Procs : LikeList(p)
  \/ \E p \in Procs, c \in Clients : StartComment(p, c, 1, ShortText, <<>>)
  \/ \E p \in Procs : CommentUpdate(p)

SpecAccount == InitAccount /\ [][NextAccount]_vars

\* reading a video's comments next to the feed and the comment route
NextRead ==
  \/ \E p \in Procs : StartSignup(p, "c1", Bob, "secret1")
  \/ \E p \in Procs : SignupGetUser(p)
  \/ \E p \in Procs : SignupCreateUser(p)
  \/ \E p \in Procs : StartFeed(p)
  \/ \E p \in Procs : FeedSeedScan(p)
  \/ \E p \in Procs : FeedSeedPut(p)
  \/ \E p \in Procs : FeedList(p)
  \/ \E p \in Procs, id \in VideoIdInputs : StartComment(p, "c1", id, ShortText, <<>>)
  \/ \E p \in Procs : CommentUpdate(p)
  \/ \E p \in Procs, id \in VideoIdInputs : StartGetComments(p, id)
  \/ \E p \in Procs : GetCommentsFinish(p)
  \/ Tick

SpecRead == Init /\ [][NextRead]_vars

\* the routes that call the table service, each call answering or failing
NextFault ==
  \/ \E p \in Procs, c \in Clients : StartSignup(p, c, Bob, "secret1")
  \/ \E p \in Procs : SignupGetUser(p)
  \/ \E p \in Procs : SignupCreateUser(p)
  \/ \E p \in Procs : SignupStoreFails(p)
  \/ \E p \in Procs, c \in Clients : StartLogin(p, c, Bob, "secret1")
  \/ \E p \in Procs : LoginFinish(p)
  \/ \E p \in Procs : LoginStoreFails(p)
  \/ \E p \in Procs, c \in Clients : StartLike(p, c, 1)
  \/ \E p \in Procs : LikeUpdate(p)
  \/ \E p \in Procs : LikeStoreFails(p)
  \/ \E p \in Procs : LikeList(p)
  \/ \E p \in Procs : LikeListFails(p)
  \/ \E p \in Procs, c \in Clients : StartComment(p, c, 1, ShortText, <<>>)
  \/ \E p \in Procs : CommentUpdate(p)
  \/ \E p \in Procs : CommentStoreFails(p)
  \/ \E p \in Procs : StartGetComments(p, 1)
  \/ \E p \in Procs : GetCommentsFinish(p)
  \/ \E p \in Procs : GetCommentsStoreFails(p)

SpecFault == Init /\ [][NextFault]_vars

\* ============================================================ properties
\* slot p takes a new request in this step
Starts(p) == nreq' = nreq + 1 /\ CanStart(p)

\* slot p's request is answered in this step
Answers(p) == proc'[p].pc = "done" /\ (Starts(p) \/ p \in InFlight)

\* slot p's like reaches the store in this step
LikeApplies(p) ==
  /\ proc'[p].kind = "like"
  /\ \/ variant \in Managed /\ At(p, "like", "update") /\ proc'[p].pc # "update"
     \/ variant \in FileBacked /\ Starts(p) /\ proc'[p].status # 401

DoneLike(p) ==
  /\ proc[p].kind = "like"
  /\ proc[p].pc = "done"
  /\ proc[p].status # 401

\* the witness holds exactly this many user ids
WitnessCount(item) ==
  IF Has(item, "likes") THEN Len(item.likes) ELSE Cardinality(WitnessSet(item))

\* C1: two likes of one stored video by one user id, neither followed by a
\* reseeding of the video, raise likeCount by 1 in total when either found
\* the user absent from the witness (by 0 when both found the user there)
\* and never by 2, and the user id is in the witness afterwards.
C1_NoDoubleCount ==
  variant \in SessionEnabled =>
    \A p, q \in Procs :
      ( /\ p # q
        /\ DoneLike(p) /\ DoneLike(q)
        /\ proc[p].vid = proc[q].vid
        /\ UserKey(proc[p]) = UserKey(proc[q])
        /\ proc[p].existed /\ proc[q].existed
        /\ ~proc[p].reseeded /\ ~proc[q].reseeded )
      => /\ proc[p].inc + proc[q].inc = (IF proc[p].wasIn /\ proc[q].wasIn THEN 0 ELSE 1)
         /\ proc[p].vid \in DOMAIN videos
         /\ UserKey(proc[p]) \in WitnessSet(videos[proc[p].vid])

\* two likes by one user were in flight together on a managed table, both
\* are answered, and the count rose by one
C1_Witness ==
  /\ variant = "p1ddb"
  /\ \E p, q \in Procs :
       /\ p # q
       /\ DoneLike(p) /\ DoneLike(q)
       /\ q \in proc[p].conc
       /\ proc[p].vid = 1 /\ proc[q].vid = 1
       /\ UserKey(proc[p]) = UserKey(proc[q])
       /\ proc[p].existed /\ proc[q].existed
       /\ ~proc[p].reseeded /\ ~proc[q].reseeded
       /\ proc[p].inc = 1 /\ proc[q].inc = 0
       /\ proc[p].status = 200 /\ proc[q].status = 200

\* C2: a like of a stored video raises likeCount by 1 when the user id is
\* not in the witness and by 0 when it is, and leaves the user id in the
\* witness: every call after the first adds nothing.
C2_LikeIdempotent ==
  [][\A p \in Procs :
       (variant \in SessionEnabled /\ LikeApplies(p) /\ proc'[p].vid \in DOMAIN videos)
       => LET id == proc'[p].vid
              u == UserKey(proc'[p])
          IN /\ id \in DOMAIN videos'
             /\ LikeCountOf(videos'[id]) - LikeCountOf(videos[id])
                  = (IF u \in WitnessSet(videos[id]) THEN 0 ELSE 1)
             /\ u \in WitnessSet(videos'[id])]_vars

\* a user's repeated like, alone in flight, answered without raising the count
C2_Witness ==
  \E p \in Procs :
    /\ DoneLike(p)
    /\ variant \in SessionEnabled
    /\ proc[p].conc = {}
    /\ proc[p].existed /\ proc[p].wasIn /\ proc[p].inc = 0
    /\ LikeCountOf(videos[proc[p].vid]) = 1

\* C3: in the servers with sessions every stored video's likeCount is the
\* number of user ids in its witness, and the witness holds no id twice.
C3_LikeCountIsWitnessSize ==
  variant \in SessionEnabled =>
    \A id \in DOMAIN videos :
      /\ LikeCountOf(videos[id]) = WitnessCount(videos[id])
      /\ WitnessCount(videos[id]) = Cardinality(WitnessSet(videos[id]))

\* two users have liked one video
C3_Witness ==
  /\ variant \in SessionEnabled
  /\ \E id \in DOMAIN videos :
       /\ LikeCountOf(videos[id]) = 2
       /\ Cardinality(WitnessSet(videos[id])) = 2

\* C4: in the managed-table servers a like by a user who has already liked
\* the stored video is answered 200 with {id, likeCount}, likeCount being
\* the video's count, never with an error status.
C4_RepeatLikeAnswered200 ==
  [][\A p \in Procs :
       ( /\ variant \in Managed
         /\ Answers(p)
         /\ proc'[p].kind = "like"
         /\ proc'[p].existed /\ proc'[p].wasIn )
       => /\ proc'[p].status = 200
          /\ proc'[p].body = [id |-> proc'[p].vid,
                              likeCount |-> LikeCountOf(videos'[proc'[p].vid])]]_vars

\* the records stored under a signup's name (same spelling)
RecordsNamed(un) == {u \in StoredUsers : u.username = un}

\* C5: two signups for one name not yet stored, both passing the field
\* checks and in flight together, end with one record stored, one 201 and
\* one 409.
C5_ConcurrentSignupOneConflict ==
  variant \in SessionEnabled =>
    \A p, q \in Procs :
      ( /\ p # q
        /\ proc[p].kind = "signup" /\ proc[q].kind = "signup"
        /\ proc[p].pc = "done" /\ proc[q].pc = "done"
        /\ q \in proc[p].conc
        /\ proc[p].uname = proc[q].uname
        /\ proc[p].status # 400 /\ proc[q].status # 400
        /\ ~proc[p].wasIn /\ ~proc[q].wasIn )
      => /\ {proc[p].status, proc[q].status} = {201, 409}
         /\ Cardinality(RecordsNamed(proc[p].uname)) = 1

\* a stored record collides with name un: same spelling in the managed
\* table, same spelling up to case in the file stores
RecordMatches(un) ==
  \E u \in StoredUsers :
    IF variant \in Managed THEN u.username = un
    ELSE toLowerCase(u.username) = toLowerCase(un)

\* slot p's signup, past the field checks, looks its name up in this step
SignupLooksUp(p) ==
  /\ proc'[p].kind = "signup"
  /\ \/ variant \in Managed /\ At(p, "signup", "getUser") /\ proc'[p].pc # "getUser"
     \/ /\ variant \in FileBacked
        /\ Starts(p)
        /\ SignupFieldError(proc'[p].uname, proc'[p].pw) = ""

\* C6: a signup that passes the field checks and finds a record for its
\* name stored is answered 409 username_taken, and that step changes
\* neither the user store nor any session; a user record appears only in a
\* step that answers a signup for its name with 201.
C6_DuplicateSignupRejected ==
  [][/\ \A p \in Procs :
          (SignupLooksUp(p) /\ RecordMatches(proc'[p].uname))
          => /\ proc'[p].pc = "done"
             /\ proc'[p].status = 409
             /\ proc'[p].body = [error |-> "username_taken"]
             /\ users' = users
             /\ session' = session
     /\ users' # users =>
          \E p \in Procs :
            /\ Answers(p)
            /\ proc'[p].kind = "signup"
            /\ proc'[p].status = 201
            /\ \E u \in StoredUsers' : u.username = proc'[p].uname]_vars

\* a signup that ran alone was refused for a name stored under another
\* spelling or another password
C6_Witness ==
  \E p \in Procs :
    /\ proc[p].kind = "signup"
    /\ proc[p].pc = "done"
    /\ proc[p].conc = {}
    /\ proc[p].status = 409
    /\ \E u \in StoredUsers :
         /\ toLowerCase(u.username) = toLowerCase(proc[p].uname)
         /\ ~bcryptCompare(proc[p].pw, u.passwordHash)

\* the stored commentCount attribute, 0 when absent
CommentCountAttr(item) == IF Has(item, "commentCount") THEN item.commentCount ELSE 0

\* C7: in the managed-table servers every stored video's commentCount
\* attribute (0 when absent) is the length of its comments list in every
\* state, and a feed answer lists every stored video with a commentCount
\* equal to that length.
C7_CommentCountIsLength ==
  /\ [](variant \in Managed =>
          \A id \in DOMAIN videos :
            CommentCountAttr(videos[id]) = Len(CommentsOf(videos[id])))
  /\ [][\A p \in Procs :
          (variant \in Managed /\ Answers(p) /\ proc'[p].kind = "feed")
          => LET list == proc'[p].body
             IN /\ {list[i].id : i \in 1..Len(list)} = DOMAIN videos
                /\ \A i \in 1..Len(list) :
                     list[i].commentCount = Len(CommentsOf(videos[list[i].id]))]_vars

\* a feed answer of a managed-table server lists a video with a comment
C7_Witness ==
  /\ variant \in Managed
  /\ \E p \in Procs :
       /\ proc[p].kind = "feed"
       /\ proc[p].pc = "done"
       /\ \E i \in 1..Len(proc[p].body) :
            /\ proc[p].body[i].commentCount = 1
            /\ proc[p].body[i].id \in DOMAIN videos
            /\ CommentCountAttr(videos[proc[p].body[i].id]) = 1

\* C8: a comment answered 201 on a stored video lengthens the video's
\* comments list by one, is its last element and equals the comment in the
\* answer, and the earlier elements are as they were.
C8_CommentAppended ==
  [][\A p \in Procs :
       ( /\ Answers(p)
         /\ proc'[p].kind = "comment"
         /\ proc'[p].status = 201
         /\ proc'[p].vid \in DOMAIN videos )
       => LET old == CommentsOf(videos[proc'[p].vid])
              new == CommentsOf(videos'[proc'[p].vid])
          IN /\ Len(new) = Len(old) + 1
             /\ new[Len(new)] = proc'[p].body.comment
             /\ SubSeq(new, 1, Len(old)) = old]_vars

\* a second comment was appended to a seeded video and answered 201
C8_Witness ==
  \E p \in Procs :
    /\ proc[p].kind = "comment"
    /\ proc[p].pc = "done"
    /\ proc[p].status = 201
    /\ proc[p].vid \in DOMAIN videos
    /\ Has(videos[proc[p].vid], "src")
    /\ Len(CommentsOf(videos[proc[p].vid])) = 2
    /\ CommentsOf(videos[proc[p].vid])[2] = proc[p].body.comment

\* C9: no step removes, reorders or rewrites a stored comment: every
\* video's comments list is a prefix of its list in the next state.
C9_CommentsAppendOnly ==
  [][\A id \in DOMAIN videos :
       /\ id \in DOMAIN videos'
       /\ IsPrefix(CommentsOf(videos[id]), CommentsOf(videos'[id]))]_vars

\* C10: a comment request that reaches the handler is answered 400
\* empty_comment when its trimmed text is empty and 400 too_long when it is
\* longer than 300, both without a change to the video store, and is not
\* answered 400 when the trimmed length is 1 to 300.
C10_CommentTextValidated ==
  [][\A p \in Procs :
       (Starts(p) /\ proc'[p].kind = "comment" /\ Authorized(proc'[p]))
       => LET n == Len(trim(proc'[p].text))
              refused(e) == /\ proc'[p].pc = "done"
                            /\ proc'[p].status = 400
                            /\ proc'[p].body = [error |-> e]
                            /\ videos' = videos
          IN /\ n = 0 => refused("empty_comment")
             /\ n > 300 => refused("too_long")
             /\ (1 <= n /\ n <= 300) => ~(proc'[p].pc = "done" /\ proc'[p].status = 400)]_vars

\* a text of 301 characters between spaces was refused and one of 300
\* characters was stored
C10_Witness ==
  /\ \E p \in Procs :
       /\ proc[p].kind = "comment"
       /\ proc[p].pc = "done"
       /\ Len(trim(proc[p].text)) = 301
       /\ proc[p].body = [error |-> "too_long"]
  /\ \E id \in DOMAIN videos :
       \E i \in 1..Len(CommentsOf(videos[id])) : Len(CommentsOf(videos[id])[i].text) = 300

\* slot p holds a comment request that was answered 201
DoneComment(p) ==
  /\ proc[p].kind = "comment"
  /\ proc[p].pc = "done"
  /\ proc[p].status = 201

\* C11: in the servers with sessions a comment answered 201 carries, in the
\* answer and as stored, the username of the request's session as its user,
\* and two such requests with the same session and text store the same
\* user whatever user field their bodies carry.
C11_CommentUserFromSession ==
  /\ [][\A p \in Procs :
          ( /\ variant \in SessionEnabled
            /\ Answers(p)
            /\ proc'[p].kind = "comment"
            /\ proc'[p].status = 201 )
          => LET stored == CommentsOf(videos'[proc'[p].vid])
             IN /\ proc'[p].body.comment.user = proc'[p].sess[1].username
                /\ stored # <<>>
                /\ stored[Len(stored)].user = proc'[p].sess[1].username]_vars
  /\ [](variant \in SessionEnabled =>
          \A p, q \in Procs :
            ( /\ DoneComment(p) /\ DoneComment(q)
              /\ proc[p].sess = proc[q].sess
              /\ proc[p].text = proc[q].text )
            => proc[p].body.comment.user = proc[q].body.comment.user)

\* two comments of one session, one whose body names another user, were
\* both stored under the session's username
C11_Witness ==
  /\ variant \in SessionEnabled
  /\ \E p, q \in Procs :
       /\ DoneComment(p) /\ DoneComment(q)
       /\ proc[p].sess = proc[q].sess
       /\ proc[p].author = Amy /\ proc[q].author = <<>>
       /\ proc[p].body.comment.user = Bob
       /\ proc[q].body.comment.user = Bob
       /\ \E id \in DOMAIN videos :
            \A i \in 1..Len(CommentsOf(videos[id])) : CommentsOf(videos[id])[i].user = Bob

AccountKinds == {"listCourses", "addCourse", "removeCourse", "password"}

\* slot p takes, in this step, a request of one of the kinds in K from a
\* client whose cookie holds no user
StartsAnonymous(p, K) ==
  /\ variant \in SessionEnabled
  /\ Starts(p)
  /\ proc'[p].kind \in K
  /\ session[proc'[p].client] = <<>>

\* the request that slot p took in this step was refused by the gate and
\* touched no store
RefusedByGate(p) ==
  /\ proc'[p].pc = "done"
  /\ proc'[p].status = 401
  /\ proc'[p].body = [error |-> "unauthorized"]
  /\ users' = users
  /\ videos' = videos
  /\ session' = session

\* C12 as stated: in every server with sessions a like, comment, courses
\* or password request without a session user is answered 401 unauthorized
\* in the step that takes it, and neither store changes.
C12_AnonymousRefusedEverywhere ==
  [][\A p \in Procs :
       StartsAnonymous(p, {"like", "comment"} \cup AccountKinds) => RefusedByGate(p)]_vars

\* C12 amended: the same for like and comment requests in every server with
\* sessions, and for the courses and password requests in part_000, the
\* one server that registers those routes.
C12_AnonymousRefusedWhereRouted ==
  [][\A p \in Procs :
       ( \/ StartsAnonymous(p, {"like", "comment"})
         \/ HasAccountRoutes /\ StartsAnonymous(p, AccountKinds) )
       => RefusedByGate(p)]_vars

\* an anonymous password change and an anonymous like were both refused
\* while an account exists
C12_Witness ==
  /\ variant = "p0"
  /\ StoredUsers # {}
  /\ \E p, q \in Procs :
       /\ proc[p].kind = "password" /\ proc[p].pc = "done"
       /\ proc[p].body = [error |-> "unauthorized"]
       /\ proc[q].kind = "like" /\ proc[q].pc = "done"
       /\ proc[q].body = [error |-> "unauthorized"]

\* the session value of an account record
SessionOf(u) == <<[id |-> u.id, username |-> u.username]>>

\* slot p's signup or login is answered with success in this step
AuthSucceeds(p) ==
  /\ Answers(p)
  /\ \/ proc'[p].kind = "signup" /\ proc'[p].status = 201
     \/ proc'[p].kind = "login" /\ proc'[p].status = 200

\* the account of the signup or login that slot p answers in this step: the
\* record the signup stores, the record the login read
AccountsOf(p) ==
  IF proc'[p].kind = "signup" THEN {u \in StoredUsers' : u.username = proc'[p].uname}
  ELSE IF variant \in Managed THEN {u \in StoredUsers : u.username = proc'[p].uname}
  ELSE Elems(proc[p].snap)

\* C13: a client's session changes only in a step that answers a signup
\* (201) or login (200) of that client, after which it holds the {id,
\* username} of the account signed up or logged into, or in a step that
\* answers its logout, after which it is empty; every successful signup or
\* login sets the session so, and every logout is answered 200 and leaves
\* the session empty.
C13_SessionStateMachine ==
  [][/\ \A c \in Clients :
          session'[c] # session[c] =>
            \E p \in Procs :
              /\ proc'[p].client = c
              /\ \/ AuthSucceeds(p)
                 \/ Answers(p) /\ proc'[p].kind = "logout"
     /\ \A p \in Procs :
          AuthSucceeds(p) =>
            \E u \in AccountsOf(p) :
              /\ u.username = proc'[p].body.username
              /\ session'[proc'[p].client] = SessionOf(u)
     /\ \A p \in Procs :
          (Answers(p) /\ proc'[p].kind = "logout") =>
            /\ proc'[p].status = 200
            /\ session'[proc'[p].client] = <<>>]_vars

\* a client signed up, was authenticated, then logged out and is anonymous
C13_Witness ==
  /\ session["c1"] = <<>>
  /\ \E p, q \in Procs :
       /\ proc[p].kind = "signup" /\ proc[p].pc = "done" /\ proc[p].status = 201
       /\ proc[p].client = "c1"
       /\ proc[q].kind = "logout" /\ proc[q].pc = "done" /\ proc[q].client = "c1"
       /\ proc[q].conc = {}

\* the answer a login gives for the record rec its lookup read
LoginAccepted(p, rec) ==
  /\ proc'[p].status = 200
  /\ proc'[p].body = [ok |-> TRUE, username |-> rec.username]
  /\ session' = [session EXCEPT ![proc'[p].client] = SessionOf(rec)]

LoginRefused(p) ==
  /\ proc'[p].status = 401
  /\ proc'[p].body = [error |-> "invalid_login"]
  /\ session' = session

\* C14: a login is answered 401 invalid_login, the sessions unchanged, when
\* no record is stored for its username (same spelling in the managed
\* table, same spelling up to case in the files) and, with the same answer,
\* when the password does not match the hash of the record read; it is
\* answered 200 and sets the client's session to that record's {id,
\* username} when the password matches.
C14_LoginOutcome ==
  [][\A p \in Procs :
       (proc'[p].kind = "login" /\ (Starts(p) \/ Answers(p))) =>
         LET un == proc'[p].uname
             outcome(rec) == IF bcryptCompare(proc'[p].pw, rec.passwordHash)
                             THEN LoginAccepted(p, rec) ELSE LoginRefused(p)
         IN IF variant \in Managed
            THEN Answers(p) =>
                   IF un \in DOMAIN users THEN outcome(users[un]) ELSE LoginRefused(p)
            ELSE IF Starts(p)
            THEN IF RecordMatches(un)
                 THEN /\ proc'[p].pc # "done"
                      /\ proc'[p].snap[1] \in StoredUsers
                      /\ toLowerCase(proc'[p].snap[1].username) = toLowerCase(un)
                 ELSE proc'[p].pc = "done" /\ LoginRefused(p)
            ELSE outcome(proc[p].snap[1])]_vars

\* one login was refused for a wrong password on a stored account, another
\* for a name never stored, while a third form succeeded
C14_Witness ==
  \E p, q \in Procs :
    /\ proc[p].kind = "login" /\ proc[p].pc = "done" /\ proc[p].status = 401
    /\ \E u \in StoredUsers :
         u.username = proc[p].uname /\ ~bcryptCompare(proc[p].pw, u.passwordHash)
    /\ proc[q].kind = "login" /\ proc[q].pc = "done" /\ proc[q].status = 200
    /\ session[proc[q].client] # <<>>
    /\ session[proc[q].client][1].username = proc[q].body.username

\* slot p's password change is resumed in this step from suspension at pc
PasswordResumes(p, pc) == At(p, "password", pc) /\ proc'[p].pc # pc

\* the password change of slot p is answered 401 and writes nothing
PasswordRefused(p) ==
  /\ proc'[p].pc = "done"
  /\ proc'[p].status = 401
  /\ proc'[p].body = [error |-> "invalid_old_password"]
  /\ users' = users

\* C15: in part_000 a password change whose lookup finds no record for the
\* session's username, or whose oldPassword does not match the hash of the
\* record it read, is answered 401 invalid_old_password in a step that
\* leaves the user store as it was; no step of a password change before its
\* update writes to the user store, and the update is reached only with an
\* oldPassword that matched the hash read.
C15_WrongOldPasswordWritesNothing ==
  [][\A p \in Procs :
       /\ ( /\ PasswordResumes(p, "getUser")
            /\ proc[p].sess[1].username \notin DOMAIN users ) => PasswordRefused(p)
       /\ ( /\ PasswordResumes(p, "compare")
            /\ Has(proc[p].snap[1], "passwordHash")
            /\ ~bcryptCompare(proc[p].pw, proc[p].snap[1].passwordHash) )
          => PasswordRefused(p)
       /\ ( \/ Starts(p) /\ proc'[p].kind = "password"
            \/ PasswordResumes(p, "getUser")
            \/ PasswordResumes(p, "compare") ) => users' = users
       /\ PasswordResumes(p, "update") =>
            /\ Has(proc[p].snap[1], "passwordHash")
            /\ bcryptCompare(proc[p].pw, proc[p].snap[1].passwordHash)]_vars

\* a password change with a wrong old password and one for a username
\* without a record were both refused, and the stored hash is still that of
\* the signup password
C15_Witness ==
  /\ variant = "p0"
  /\ Bob \in DOMAIN users
  /\ users[Bob].passwordHash = bcryptHash("secret1")
  /\ Amy \notin DOMAIN users
  /\ \E p, q \in Procs :
       /\ proc[p].kind = "password" /\ proc[p].pc = "done" /\ proc[p].client = "c1"
       /\ proc[p].pw = "wrong12"
       /\ proc[p].body = [error |-> "invalid_old_password"]
       /\ proc[q].kind = "password" /\ proc[q].pc = "done" /\ proc[q].client = "c2"
       /\ proc[q].body = [error |-> "invalid_old_password"]

\* C16: in the servers with sessions a like that reaches the store for an
\* id without a stored video record is answered 404 not_found and leaves
\* the video store as it was, so no record appears for that id.
C16_LikeUnknownVideoNotFound ==
  [][\A p \in Procs :
       ( /\ variant \in SessionEnabled
         /\ LikeApplies(p)
         /\ proc'[p].vid \notin DOMAIN videos )
       => /\ proc'[p].pc = "done"
          /\ proc'[p].status = 404
          /\ proc'[p].body = [error |-> "not_found"]
          /\ videos' = videos]_vars

\* slot p's comment, authorized and with valid text, reaches the store in
\* this step
CommentApplies(p) ==
  /\ proc'[p].kind = "comment"
  /\ \/ variant \in Managed /\ At(p, "comment", "update") /\ proc'[p].pc # "update"
     \/ variant \in FileBacked /\ Starts(p) /\ proc'[p].status \notin {400, 401}

\* C17: in the servers with sessions a comment with valid text that
\* reaches the store for an id without a stored video record is answered
\* 404 not_found and leaves the video store as it was: no record is
\* created and no comment is stored.
C17_CommentUnknownVideoNotFound ==
  [][\A p \in Procs :
       ( /\ variant \in SessionEnabled
         /\ CommentApplies(p)
         /\ proc'[p].vid \notin DOMAIN videos )
       => /\ proc'[p].pc = "done"
          /\ proc'[p].status = 404
          /\ proc'[p].body = [error |-> "not_found"]
          /\ videos' = videos]_vars

\* C18: a request for a video's comments is answered 404 when no record
\* with that id is stored and 200 with {id, comments}, comments being the
\* stored list in its order, when one is, in every server.
C18_GetCommentsAnswer ==
  [][\A p \in Procs :
       (Answers(p) /\ proc'[p].kind = "getComments") =>
         IF proc'[p].vid \in DOMAIN videos
         THEN /\ proc'[p].status = 200
              /\ proc'[p].body = [id |-> proc'[p].vid,
                                  comments |-> CommentsOf(videos[proc'[p].vid])]
         ELSE proc'[p].status = 404]_vars

\* slot p's feed request is resumed in this step from suspension at pc
FeedResumes(p, pc) ==
  /\ At(p, "feed", pc)
  /\ proc'[p].pc # pc \/ proc'[p].k # proc[p].k

\* item is the seed record of video id: no like, no witness entry, no comment
FreshSeed(item, id) ==
  /\ item = SeedItem(variant, id)
  /\ item.id = id
  /\ item.likeCount = 0
  /\ item.likes = <<>>
  /\ item.comments = <<>>

\* C19: in the managed-table servers the seeding of a feed request whose
\* Scan finds an item writes nothing (nor does any other step of it), and
\* the seeding of a request whose Scan finds the table empty writes the
\* seed records and nothing else; when no other request overlapped it the
\* table then holds exactly the videos 1, 2, 3, each with likeCount 0, an
\* empty witness and no comments.
C19_SeedOnlyWhenEmpty ==
  [][\A p \in Procs :
       variant \in Managed =>
         /\ FeedResumes(p, "seedScan") =>
              /\ videos' = videos
              /\ proc'[p].pc = (IF DOMAIN videos = {} THEN "seedPut" ELSE "listVideos")
         /\ FeedResumes(p, "listVideos") => videos' = videos
         /\ (Starts(p) /\ proc'[p].kind = "feed") => videos' = videos
         /\ FeedResumes(p, "seedPut") =>
              \E id \in 1..NumSeedVideos :
                /\ videos' = SetAttr(videos, id, videos'[id])
                /\ FreshSeed(videos'[id], id)
         /\ (FeedResumes(p, "seedPut") /\ proc'[p].pc = "listVideos" /\ proc[p].conc = {}) =>
              /\ DOMAIN videos' = 1..NumSeedVideos
              /\ \A id \in DOMAIN videos' : FreshSeed(videos'[id], id)]_vars

\* a feed request that ran alone on the seeded table after a like lists the
\* three videos with that like
C19_Witness ==
  /\ variant \in Managed
  /\ DOMAIN videos = 1..NumSeedVideos
  /\ \E p \in Procs :
       /\ proc[p].kind = "feed" /\ proc[p].pc = "done" /\ proc[p].conc = {}
       /\ Len(proc[p].body) = NumSeedVideos
       /\ proc[p].body[1].likeCount = 1
       /\ LikeCountOf(videos[1]) = 1
       /\ WitnessSet(videos[1]) # {}
       /\ Has(videos[1], "src")

\* C20: a feed answer holds one projection per stored video, in each of
\* which the witness (likes, likesByUser) and the comments list are absent,
\* commentCount is the length of the video's stored comments list and
\* likeCount is its stored likeCount (0 for a record without one).
C20_FeedProjection ==
  [][\A p \in Procs :
       (Answers(p) /\ proc'[p].kind = "feed") =>
         LET list == proc'[p].body
         IN /\ proc'[p].status = 200
            /\ Len(list) = Cardinality(DOMAIN videos)
            /\ {list[i].id : i \in 1..Len(list)} = DOMAIN videos
            /\ \A i \in 1..Len(list) :
                 LET item == videos[list[i].id]
                 IN /\ DOMAIN list[i] \cap {"likes", "likesByUser", "comments"} = {}
                    /\ list[i].commentCount = Len(CommentsOf(item))
                    /\ Has(list[i], "likeCount")
                    /\ list[i].likeCount = LikeCountOf(item)]_vars

\* a feed answer lists a video that holds a witness entry and a comment
C20_Witness ==
  \E p \in Procs :
    /\ proc[p].kind = "feed" /\ proc[p].pc = "done"
    /\ \E i \in 1..Len(proc[p].body) :
         LET id == proc[p].body[i].id
         IN /\ id \in DOMAIN videos
            /\ WitnessSet(videos[id]) # {}
            /\ CommentsOf(videos[id]) # <<>>
            /\ proc[p].body[i].likeCount = 1
            /\ proc[p].body[i].commentCount = 1
            /\ ~Has(proc[p].body[i], "comments")

\* C22: in the original server a like of a stored video by the caller whose
\* like of that video was answered just before is a no-op: the video store
\* is unchanged and the answer is 200 with the current likeCount.
C22_OriginalLikeOncePerCaller ==
  [][\A p \in Procs :
       ( /\ variant = "tb"
         /\ DoneLike(p) /\ proc[p].status = 200
         /\ Starts(p)
         /\ proc'[p].kind = "like"
         /\ proc'[p].vid = proc[p].vid
         /\ proc'[p].client = proc[p].client )
       => /\ videos' = videos
          /\ proc'[p].status = 200
          /\ proc'[p].body = [id |-> proc[p].vid,
                              likeCount |-> LikeCountOf(videos[proc[p].vid])]]_vars

\* C23: in the managed-table servers no step lowers a stored video's
\* likeCount, removes a user id from its witness, shortens its comments
\* list or removes the video.
C23_VideoStateMonotone ==
  [][(variant \in Managed) =>
       \A id \in DOMAIN videos :
         /\ id \in DOMAIN videos'
         /\ LikeCountOf(videos'[id]) >= LikeCountOf(videos[id])
         /\ WitnessSet(videos[id]) \subseteq WitnessSet(videos'[id])
         /\ Len(CommentsOf(videos'[id])) >= Len(CommentsOf(videos[id]))]_vars

\* C24: in part_002 a signup answered 201 has stored a record with its
\* username and the hash of its password, and no step removes a stored
\* user record.
C24_SignupRecordKept ==
  [][(variant = "p2") =>
       /\ \A u \in StoredUsers : u \in StoredUsers'
       /\ \A p \in Procs :
            (Answers(p) /\ proc'[p].kind = "signup" /\ proc'[p].status = 201) =>
              \E u \in StoredUsers' :
                /\ u.username = proc'[p].uname
                /\ u.passwordHash = bcryptHash(proc'[p].pw)]_vars

StoresOnFile == {"p1file", "p2"}

\* every video other than id is stored in the next state as it is now
OthersKept(id) ==
  /\ DOMAIN videos' = DOMAIN videos
  /\ \A other \in DOMAIN videos \ {id} : videos'[other] = videos[other]

\* C25: in the file stores of part_002 and part_001 a like or comment is
\* answered in the step that takes it; a like of a stored video adds its
\* user id to the witness, keeps every other id, raises likeCount by 1 when
\* the id is new and touches nothing else; a comment answered 201 appends
\* exactly its comment and touches nothing else; no other step changes the
\* video store.  So k likes by k user ids add k and m comments add m.
C25_FileStoreNoLostUpdate ==
  [][(variant \in StoresOnFile) =>
       /\ \A p \in Procs :
            (Starts(p) /\ proc'[p].kind \in {"like", "comment"}) => proc'[p].pc = "done"
       /\ \A p \in Procs :
            (LikeApplies(p) /\ proc'[p].vid \in DOMAIN videos) =>
              LET id == proc'[p].vid
                  u == UserKey(proc'[p])
              IN /\ OthersKept(id)
                 /\ WitnessSet(videos'[id]) = WitnessSet(videos[id]) \cup {u}
                 /\ LikeCountOf(videos'[id]) = LikeCountOf(videos[id])
                                                + (IF u \in WitnessSet(videos[id]) THEN 0 ELSE 1)
                 /\ CommentsOf(videos'[id]) = CommentsOf(videos[id])
       /\ \A p \in Procs :
            (CommentApplies(p) /\ proc'[p].vid \in DOMAIN videos) =>
              LET id == proc'[p].vid
              IN /\ OthersKept(id)
                 /\ proc'[p].status = 201
                 /\ CommentsOf(videos'[id]) = Append(CommentsOf(videos[id]), proc'[p].body.comment)
                 /\ WitnessSet(videos'[id]) = WitnessSet(videos[id])
                 /\ LikeCountOf(videos'[id]) = LikeCountOf(videos[id])
       /\ videos' # videos =>
            \E p \in Procs : LikeApplies(p) \/ CommentApplies(p)]_vars

\* two users with different ids have liked one video of a file store and
\* both likes are counted
C25_Witness ==
  /\ variant \in StoresOnFile
  /\ \E p \in Procs :
       /\ DoneLike(p) /\ proc[p].status = 200
       /\ proc[p].inc = 1
       /\ LikeCountOf(videos[proc[p].vid]) = 2
       /\ Cardinality(WitnessSet(videos[proc[p].vid])) = 2

\* C27: when likes of one stored video by two accounts with different
\* usernames have both been answered 200 (and seeding has not rewritten
\* the video since), the video's likeCount is at least 2, whatever the
\* clock read when the two accounts were created.
C27_LikesCountedPerAccount ==
  variant \in SessionEnabled =>
    \A p, q \in Procs :
      ( /\ p # q
        /\ DoneLike(p) /\ DoneLike(q)
        /\ proc[p].status = 200 /\ proc[q].status = 200
        /\ proc[p].vid = proc[q].vid
        /\ proc[p].existed /\ proc[q].existed
        /\ ~proc[p].reseeded /\ ~proc[q].reseeded
        /\ proc[p].sess[1].username # proc[q].sess[1].username )
      => LikeCountOf(videos[proc[p].vid]) >= 2

\* slot p's login or signup is answered with a refusal in this step
AuthRefused(p) ==
  /\ Answers(p)
  /\ \/ proc'[p].kind = "login" /\ proc'[p].status = 401
     \/ proc'[p].kind = "signup" /\ proc'[p].status \in {400, 409, 500}

\* C28: a step that answers a login with 401 or a signup with 400, 409 or
\* 500 leaves every client's session as it was.
C28_RefusalKeepsSession ==
  [][\A p \in Procs : AuthRefused(p) => session' = session]_vars

\* of the only two requests so far, the client's signup was answered 201
\* and its second signup 409, and the client is still that account
C28_Witness ==
  /\ nreq = 2
  /\ \E p, q \in Procs, c \in Clients :
       /\ proc[p].kind = "signup" /\ proc[p].pc = "done" /\ proc[p].status = 201
       /\ proc[q].kind = "signup" /\ proc[q].pc = "done" /\ proc[q].status = 409
       /\ proc[p].client = c /\ proc[q].client = c
       /\ session[c] # <<>>
       /\ session[c][1].username = proc[p].uname

\* C26: in part_000 the write of a removeCourse request for account U leaves
\* U's stored passwordHash as it is and takes from U's stored courses only
\* the course being removed, so a password change or an added course that
\* was stored while the request was in flight is still there.
C26_RemoveCourseUndoesNothing ==
  [][\A p \in Procs :
       ( /\ variant = "p0"
         /\ At(p, "removeCourse", "put")
         /\ proc'[p].pc # "put"
         /\ proc[p].sess[1].username \in DOMAIN users
         /\ Has(users[proc[p].sess[1].username], "passwordHash") )
       => LET un == proc[p].sess[1].username
          IN /\ un \in DOMAIN users'
             /\ Has(users'[un], "passwordHash")
             /\ users'[un].passwordHash = users[un].passwordHash
             /\ CoursesOf(<<users'[un]>>)
                  = FilterCourses(CoursesOf(<<users[un]>>), proc[p].text)]_vars

\* C21: in the managed-table variants a like, comment, get-comments, signup
\* or login request whose store call was rejected by the table service is
\* answered with status 500 and a JSON body that carries an error code.
C21_StoreFailureAnswered500 ==
  \A p \in Procs :
    ( /\ variant \in Managed
      /\ proc[p].failed
      /\ proc[p].kind \in {"like", "comment", "getComments", "signup", "login"} )
    => /\ proc[p].pc = "done"
       /\ proc[p].status = 500
       /\ Has(proc[p].body, "error")

====
